---- MODULE Spec2Model ----
(***************************************************************************)
(* Inbound-message dispatch of the Studio Libra chatbot: the Telegram      *)
(* service (webhook dispatcher and polling handlers) and the WhatsApp      *)
(* webhook controller, with the per-user context store they share and the  *)
(* generative backends they call.                                          *)
(*                                                                         *)
(* Text is a sequence of atoms.  What a user types is split into its        *)
(* characters, so that startsWith / includes / replace / trim are computed  *)
(* as the code computes them; a fixed literal of the code (a canned reply)  *)
(* is kept as one atom.  Emoji of the literals are left out.                *)
(*                                                                         *)
(* A task is one run of a handler.  Every await of the code is one step of  *)
(* the task, so tasks of different events interleave at the awaits.         *)
(***************************************************************************)
EXTENDS Naturals, Sequences, FiniteSets

\* ------------------------------------------------------------------ bounds
\* Number of handler runs (tasks) one behaviour holds.
MaxTasks == 2

Slots == 1..MaxTasks

\* ------------------------------------------------------------------ text
LowerChar(c) ==
    CASE c = "I" -> "i" [] c = "M" -> "m" [] c = "A" -> "a" [] c = "G" -> "g"
      [] c = "N" -> "n" [] c = "E" -> "e" [] OTHER -> c

toLowerCase(s) == [i \in 1..Len(s) |-> LowerChar(s[i])]

startsWith(s, p) == Len(s) >= Len(p) /\ SubSeq(s, 1, Len(p)) = p

MatchAt(s, p, i) == i + Len(p) - 1 <= Len(s) /\ SubSeq(s, i, i + Len(p) - 1) = p

includes(s, p) == \E i \in 1..(Len(s) + 1) : MatchAt(s, p, i)

RECURSIVE ReplaceFrom(_, _, _, _)
\* s with every occurrence of p at or after i removed, scanning left to right;
\* ci: the match ignores letter case (the regular expression's i flag).
ReplaceFrom(s, p, i, ci) ==
    IF i > Len(s) THEN <<>>
    ELSE IF MatchAt(IF ci THEN toLowerCase(s) ELSE s, p, i)
         THEN ReplaceFrom(s, p, i + Len(p), ci)
         ELSE <<s[i]>> \o ReplaceFrom(s, p, i + 1, ci)

RECURSIVE trimStart(_)
trimStart(s) == IF s # <<>> /\ Head(s) = " " THEN trimStart(Tail(s)) ELSE s

RECURSIVE trimEnd(_)
trimEnd(s) ==
    IF s # <<>> /\ s[Len(s)] = " " THEN trimEnd(SubSeq(s, 1, Len(s) - 1)) ELSE s

trim(s) == trimEnd(trimStart(s))

Slash == <<"/">>
StartToken == <<"/", "s", "t", "a", "r", "t">>
imageGenerationCommand == <<"/", "i", "m", "a", "g", "i", "n", "e">>

\* text.replace(/\/imagine/gi, '').trim()
TelegramPrompt(text) == trim(ReplaceFrom(text, imageGenerationCommand, 1, TRUE))

\* text.replaceAll(imageGenerationCommand, '')
WhatsappPrompt(text) == ReplaceFrom(text, imageGenerationCommand, 1, FALSE)

\* ------------------------------------------------------------------ inputs
UserIds == {"7", "8"}

T_hi           == <<"h", "i">>
T_start        == StartToken
T_hi_start     == <<"h", "i", " ">> \o StartToken
T_help         == <<"/", "h">>
T_imagine      == imageGenerationCommand
T_sp_imagine   == <<" ">> \o imageGenerationCommand \o <<" ">>
T_imagine_fox  == imageGenerationCommand \o <<" ", "f", "o", "x">>
T_fox_imagine  == <<"f", "o", "x", " ">> \o imageGenerationCommand
T_fox_IMAGINE  == <<"f", "o", "x", " ", "/", "I", "M", "A", "G", "I", "N", "E">>

Texts == {T_hi, T_start, T_hi_start, T_help, T_imagine, T_sp_imagine,
          T_imagine_fox, T_fox_imagine, T_fox_IMAGINE}

\* A Telegram update as processWebhookUpdate and the polling handlers read it:
\* update.message (text or voice or neither, or a text together with a voice, which
\* the endpoint accepts like any other body), update.callback_query, or neither.
KnownServiceId   == <<"branding_service">>
UnknownServiceId == <<"pricing">>
MoreOptionsId    == <<"more_options">>
\* An id that names a member every object literal inherits from Object.prototype.
InheritedId      == <<"constructor">>

TelegramUpdates ==
    [kind : {"message"}, from : UserIds, hasText : {TRUE}, text : Texts,
     voice : {FALSE}, data : {<<>>}]
    \cup [kind : {"message"}, from : UserIds, hasText : {FALSE}, text : {<<>>},
          voice : BOOLEAN, data : {<<>>}]
    \cup [kind : {"message"}, from : {"7"}, hasText : {TRUE}, text : {T_help},
          voice : {TRUE}, data : {<<>>}]
    \cup [kind : {"callback_query"}, from : UserIds, hasText : {FALSE}, text : {<<>>},
          voice : {FALSE}, data : {KnownServiceId, UnknownServiceId, InheritedId}]
    \cup [kind : {"other"}, from : {"7"}, hasText : {FALSE}, text : {<<>>},
          voice : {FALSE}, data : {<<>>}]

\* What the generative backends can answer.
Responses   == {<<"reply A">>, <<"reply B">>}
Transcripts == {<<"spoken words">>}
ImageRef    == <<"generated.png">>
AudioRef    == <<"speech.mp3">>

\* ------------------------------------------------------------------ canned text
WelcomeMessage     == <<"Welcome to Studio Libra! What would you like to explore today?">>
StartedNote        == <<"User started conversation with Studio Libra via Telegram">>
GuidanceMessage    == <<"Please provide a description for the image you want to generate.">>
GeneratingMessage  == <<"Generating your image... This may take a moment!">>
ImageFailedMessage == <<"Failed to generate image. Please try again later.">>
ProcessingMessage  == <<"Processing your voice message...">>
TranscribeFailedMessage == <<"Failed to transcribe audio. Please try again.">>
VoiceFailedMessage == <<"Failed to process voice message. Please try again.">>
FallbackInfo ==
    <<"Thank you for your interest! Please tell us more about what you are looking for.">>

\* serviceInfo[serviceId] || fallback; a service text is kept by its title line.
ServiceTitles ==
    [branding_service     |-> <<"*Studio Libra Branding Services*">>,
     software_dev_service |-> <<"*Studio Libra Software Development*">>,
     models_service       |-> <<"*Studio Libra 3D Models & AI Services*">>,
     illustrations_comics |-> <<"*Studio Libra Illustrations & Comics*">>,
     talk_to_human        |-> <<"*Talk to a Human*">>]

\* serviceInfo[serviceId] also finds the members the literal inherits
\* (constructor, toString, ...): a function, which is truthy, so that the || does
\* not fall through to the fallback string.
InheritedKeys == {"constructor", "toString", "valueOf", "hasOwnProperty"}
InheritedMember == <<"function Object() { [native code] }">>

getServiceInfo(serviceId) ==
    IF Len(serviceId) = 1 /\ serviceId[1] \in DOMAIN ServiceTitles
    THEN ServiceTitles[serviceId[1]]
    ELSE IF Len(serviceId) = 1 /\ serviceId[1] \in InheritedKeys
    THEN InheritedMember
    ELSE FallbackInfo

\* ------------------------------------------------------------------ webhook verification
\* A query parameter or an environment variable: undefined, or a string (which
\* may be empty).
Undefined == [def |-> FALSE, str |-> <<>>]
Str(text) == [def |-> TRUE, str |-> text]

\* !value
Falsy(value) == ~value.def \/ value.str = <<>>

MissingParameters == Str(<<"Error: Missing Parameters">>)
TokenMismatch     == Str(<<"Error: Token Mismatch">>)

\* The body of the GET with the parameter check left out.
whatsappVerificationChallenge_unchecked(mode, challenge, token, verificationToken) ==
    IF mode = Str(<<"subscribe">>) /\ token = verificationToken
    THEN challenge
    ELSE TokenMismatch

\* GET whatsapp/webhook: what the handler returns for hub.mode, hub.challenge and
\* hub.verify_token, verificationToken being the environment's
\* WHATSAPP_CLOUD_API_WEBHOOK_VERIFICATION_TOKEN.
whatsappVerificationChallenge(mode, challenge, token, verificationToken) ==
    IF Falsy(mode) \/ Falsy(token)
    THEN MissingParameters
    ELSE IF mode = Str(<<"subscribe">>) /\ token = verificationToken
    THEN challenge
    ELSE TokenMismatch

VerificationQueries ==
    [mode : {Undefined, Str(<<>>), Str(<<"subscribe">>), Str(<<"unsubscribe">>)},
     challenge : {Undefined, Str(<<"1158201444">>)},
     token : {Undefined, Str(<<>>), Str(<<"secret">>), Str(<<"guess">>)},
     verificationToken : {Undefined, Str(<<>>), Str(<<"secret">>)}]

NoQuery == [mode |-> Undefined, challenge |-> Undefined, token |-> Undefined,
            verificationToken |-> Undefined]

\* ------------------------------------------------------------------ state
VARIABLES
    mode,    \* "webhook" (NODE_ENV = production) or "polling"
    ctx,     \* the context store: user id -> ordered entries
    task,    \* slot -> the handler run in that slot
    nextEv   \* id of the next inbound event (its message id)

vars == <<mode, ctx, task, nextEv>>

IdleTask ==
    [pc |-> "idle", ev |-> 0, entry |-> "none", handler |-> "none", path |-> "none",
     from |-> "", text |-> <<>>, data |-> <<>>, title |-> <<>>, prompt |-> <<>>,
     aiInput |-> <<>>, aiResponse |-> <<>>, serviceInfo |-> <<>>, tts |-> "",
     image |-> <<>>, itype |-> "", trace |-> <<>>, result |-> "pending",
     logged |-> FALSE, escaped |-> FALSE, overlapped |-> FALSE, kind |-> "none",
     query |-> NoQuery, answer |-> Undefined, voice |-> FALSE]

Init ==
    /\ mode \in {"webhook", "polling"}
    /\ ctx = [u \in UserIds |-> <<>>]
    /\ task = [s \in Slots |-> IdleTask]
    /\ nextEv = 1

\* One call of an adapter or of the store, as the task's trace keeps it.
Call(t, op, body, ref, replyTo, ok) ==
    [t EXCEPT !.trace = Append(@, [op |-> op, body |-> body, ref |-> ref,
                                   replyTo |-> replyTo, ok |-> ok])]

\* ------------------------------------------------------------------ context store
\* append(userId, role, text): atomic, at the end of that user's sequence.
\* The field by (the slot of the appending task) is kept for the properties only.
saveToContext(c, content, role, userID, by) ==
    [c EXCEPT ![userID] = Append(@, [role |-> role, content |-> content, by |-> by])]

\* ------------------------------------------------------------------ error boundaries
\* An exception that leaves the handler.  processWebhookUpdate catches and logs it
\* and the controller answers {status: 'ok'}; a polling callback and the WhatsApp
\* handler have no catch: the rejection leaves the entry point.
\* processWebhookUpdate without its try / catch: the exception reaches the catch
\* of the controller, which answers {status: 'error'}.
Escape_uncaught(t) ==
    IF t.entry = "webhook"
    THEN [t EXCEPT !.pc = "done", !.logged = TRUE, !.result = "error"]
    ELSE [t EXCEPT !.pc = "done", !.escaped = TRUE, !.result = "rejected"]

Escape(t) ==
    IF t.entry = "webhook"
    THEN [t EXCEPT !.pc = "done", !.logged = TRUE, !.result = "ok"]
    ELSE [t EXCEPT !.pc = "done", !.escaped = TRUE, !.result = "rejected"]

\* The handler returns normally to its entry point.
Return(t) ==
    [t EXCEPT !.pc = "done",
              !.result = IF t.entry = "webhook" THEN "ok" ELSE "resolved"]

\* An exception raised at the task's current await: into the enclosing catch of
\* handleImageGeneration (174-199) or handleVoiceMessage (207-253), else out.
Throw(t) ==
    CASE t.pc \in {"img_gen", "img_delete", "img_photo", "img_edit"}
           -> [t EXCEPT !.pc = "img_catch", !.logged = TRUE]
      [] t.pc \in {"voice_processing", "voice_getfile", "voice_save", "voice_stt",
                   "voice_edit", "voice_tts", "voice_delete", "voice_audio", "voice_text"}
           -> [t EXCEPT !.pc = "voice_catch", !.logged = TRUE]
      [] t.handler = "handleVoiceMessage" /\ t.pc \in {"ai_user", "ai_reply"}
           -> [t EXCEPT !.pc = "voice_catch", !.logged = TRUE]
      [] OTHER -> Escape(t)

Goto(t, pc) == IF pc = "return" THEN Return(t) ELSE [t EXCEPT !.pc = pc]

\* await of a call that resolves (ok) or rejects.
Await(t, op, body, ref, replyTo, ok, pc) ==
    IF ok THEN Goto(Call(t, op, body, ref, replyTo, TRUE), pc)
    ELSE Throw(Call(t, op, body, ref, replyTo, FALSE))

Step(s, t) == /\ task' = [task EXCEPT ![s] = t]
              /\ UNCHANGED <<mode, ctx, nextEv>>

StepSave(s, t, content, role) ==
    /\ ctx' = saveToContext(ctx, content, role, t.from, s)
    /\ task' = [task EXCEPT ![s] = Call(t, "saveToContext", content, <<role>>, 0, TRUE)]
    /\ UNCHANGED <<mode, nextEv>>

\* ------------------------------------------------------------------ Telegram dispatch
\* The chain with the second test reduced to msg.text: every text that is not a
\* start command goes to handleTextMessage.
WebhookRoutes_anyText(update) ==
    IF update.kind = "message"
    THEN IF update.hasText /\ startsWith(update.text, StartToken)
         THEN <<"handleStartCommand">>
         ELSE IF update.hasText
         THEN <<"handleTextMessage">>
         ELSE IF update.voice
         THEN <<"handleVoiceMessage">>
         ELSE <<>>
    ELSE IF update.kind = "callback_query"
    THEN <<"handleCallbackQuery">>
    ELSE <<>>

\* processWebhookUpdate: the handler the if / else-if chain awaits, if any.
WebhookRoutes(update) ==
    IF update.kind = "message"
    THEN IF update.hasText /\ startsWith(update.text, StartToken)
         THEN <<"handleStartCommand">>
         ELSE IF update.hasText /\ ~startsWith(update.text, Slash)
         THEN <<"handleTextMessage">>
         ELSE IF update.voice
         THEN <<"handleVoiceMessage">>
         ELSE <<>>
    ELSE IF update.kind = "callback_query"
    THEN <<"handleCallbackQuery">>
    ELSE <<>>

\* setupHandlers: the callbacks the bot library runs for one update.  It emits
\* 'message', then the message's type ('voice'), then tries the onText patterns
\* on message.text; /\/start/ is not anchored.
PollingRoutes(update) ==
    (IF update.kind = "message" /\ update.hasText /\ ~startsWith(update.text, Slash)
     THEN <<"handleTextMessage">> ELSE <<>>)
    \o (IF update.kind = "message" /\ update.voice
        THEN <<"handleVoiceMessage">> ELSE <<>>)
    \o (IF update.kind = "message" /\ update.hasText /\ includes(update.text, StartToken)
        THEN <<"handleStartCommand">> ELSE <<>>)
    \o (IF update.kind = "callback_query" THEN <<"handleCallbackQuery">> ELSE <<>>)

\* The handler's code up to its first await.
BeginTelegram(t) ==
    CASE t.handler = "handleStartCommand"
           -> [t EXCEPT !.pc = "start_save", !.path = "start"]
      [] t.handler = "handleTextMessage"
           -> IF includes(toLowerCase(t.text), imageGenerationCommand)
              THEN LET prompt == TelegramPrompt(t.text) IN
                   [t EXCEPT !.path = "image", !.prompt = prompt,
                             !.pc = IF prompt = <<>> THEN "img_guide" ELSE "img_loading"]
              ELSE [t EXCEPT !.pc = "text_typing", !.path = "text", !.aiInput = t.text]
      [] t.handler = "handleVoiceMessage"
           -> [t EXCEPT !.pc = "voice_processing", !.path = "voice"]
      [] t.handler = "handleCallbackQuery"
           -> [t EXCEPT !.pc = "cb_answer", !.path = "interactive"]
      [] OTHER -> Return(t)

\* Another handler run is under way (kept for the properties only).
Busy == \E r \in Slots : task[r].pc \notin {"idle", "done"}

FirstIdle == CHOOSE s \in 1..(MaxTasks + 1) :
                 /\ s \in Slots => task[s].pc = "idle"
                 /\ \A r \in 1..(s - 1) : task[r].pc # "idle"

NewTelegramTask(update, entry, handler, overlapped) ==
    BeginTelegram([IdleTask EXCEPT !.ev = nextEv, !.entry = entry, !.handler = handler,
                                   !.from = update.from, !.text = update.text,
                                   !.data = update.data, !.overlapped = overlapped,
                                   !.kind = update.kind, !.voice = update.voice])

Dispatch(update, entry, routes) ==
    LET n == IF routes = <<>> THEN 1 ELSE Len(routes) IN
    /\ FirstIdle + n - 1 <= MaxTasks
    /\ task' = [s \in Slots |->
                  IF s \in FirstIdle..(FirstIdle + n - 1)
                  THEN NewTelegramTask(update, entry,
                           IF routes = <<>> THEN "none" ELSE routes[s - FirstIdle + 1],
                           Busy \/ n > 1)
                  ELSE task[s]]
    /\ nextEv' = nextEv + 1
    /\ UNCHANGED <<mode, ctx>>

\* One update of the set updates arrives at the webhook / at the polling bot.
WebhookUpdate(updates) ==
    /\ mode = "webhook"
    /\ FirstIdle <= MaxTasks
    /\ \E update \in updates : Dispatch(update, "webhook", WebhookRoutes(update))

PolledUpdate(updates) ==
    /\ mode = "polling"
    /\ FirstIdle <= MaxTasks
    /\ \E update \in updates : Dispatch(update, "polling", PollingRoutes(update))

processWebhookUpdate == WebhookUpdate(TelegramUpdates)

setupHandlers == PolledUpdate(TelegramUpdates)

\* ------------------------------------------------------------------ handleStartCommand
handleStartCommand_save(s) ==
    /\ task[s].pc = "start_save"
    /\ StepSave(s, [task[s] EXCEPT !.pc = "start_send"], StartedNote, "assistant")

\* The welcome text sent without its inline keyboard.
handleStartCommand_send_plain(s) ==
    /\ task[s].pc = "start_send"
    /\ \E ok \in BOOLEAN :
         Step(s, Await(task[s], "sendMessage", WelcomeMessage, <<>>, 0, ok, "return"))

handleStartCommand_send(s) ==
    /\ task[s].pc = "start_send"
    /\ \E ok \in BOOLEAN :
         Step(s, Await(task[s], "sendMenu", WelcomeMessage, <<>>, 0, ok, "return"))

\* ------------------------------------------------------------------ generateAIResponse
\* The text-completion exchange: the input is appended as a user entry, the
\* completion is requested with the context, the response is appended as an
\* assistant entry and returned; a failed completion rejects.
AfterAI(t) ==
    CASE t.handler = "handleTextMessage"  -> "text_send"
      [] t.handler = "handleVoiceMessage" -> "voice_tts"
      [] t.path = "text"                  -> "wa_text_send"
      [] OTHER                            -> "wa_tts"

generateAIResponse_request(s) ==
    /\ task[s].pc = "ai_user"
    /\ StepSave(s, [task[s] EXCEPT !.pc = "ai_reply"], task[s].aiInput, "user")

generateAIResponse_reply(s) ==
    /\ task[s].pc = "ai_reply"
    /\ \/ \E r \in Responses :
            StepSave(s, [Call(task[s], "textCompletion", task[s].aiInput, <<>>, 0, TRUE)
                           EXCEPT !.pc = AfterAI(task[s]), !.aiResponse = r],
                     r, "assistant")
       \/ Step(s, Throw(Call(task[s], "textCompletion", task[s].aiInput, <<>>, 0, FALSE)))

\* ------------------------------------------------------------------ handleTextMessage
handleTextMessage_typing(s) ==
    /\ task[s].pc = "text_typing"
    /\ \E ok \in BOOLEAN :
         Step(s, Await(task[s], "sendChatAction", <<"typing">>, <<>>, 0, ok, "ai_user"))

\* The response sent without reply_to_message_id.
handleTextMessage_send_unquoted(s) ==
    /\ task[s].pc = "text_send"
    /\ \E ok \in BOOLEAN :
         Step(s, Await(task[s], "sendMessage", task[s].aiResponse, <<>>, 0, ok, "return"))

handleTextMessage_send(s) ==
    /\ task[s].pc = "text_send"
    /\ \E ok \in BOOLEAN :
         Step(s, Await(task[s], "sendMessage", task[s].aiResponse, <<>>, task[s].ev,
                       ok, "return"))

\* ------------------------------------------------------------------ handleImageGeneration
Caption(prompt) == <<"Generated: \"">> \o prompt \o <<"\"">>

handleImageGeneration_guide(s) ==
    /\ task[s].pc = "img_guide"
    /\ \E ok \in BOOLEAN :
         Step(s, Await(task[s], "sendMessage", GuidanceMessage, <<>>, 0, ok, "return"))

handleImageGeneration_loading(s) ==
    /\ task[s].pc = "img_loading"
    /\ \E ok \in BOOLEAN :
         Step(s, Await(task[s], "sendMessage", GeneratingMessage, <<>>, 0, ok, "img_gen"))

\* textToImage answers a non-empty array, something else, or rejects.
handleImageGeneration_textToImage(s) ==
    /\ task[s].pc = "img_gen"
    /\ \/ Step(s, [Call(task[s], "textToImage", task[s].prompt, <<>>, 0, TRUE)
                     EXCEPT !.pc = "img_delete", !.image = ImageRef])
       \/ Step(s, [Call(task[s], "textToImage", task[s].prompt, <<>>, 0, FALSE)
                     EXCEPT !.pc = "img_edit"])
       \/ Step(s, Throw(Call(task[s], "textToImage", task[s].prompt, <<>>, 0, FALSE)))

handleImageGeneration_delete(s) ==
    /\ task[s].pc = "img_delete"
    /\ \E ok \in BOOLEAN :
         Step(s, Await(task[s], "deleteMessage", GeneratingMessage, <<>>, 0, ok, "img_photo"))

handleImageGeneration_sendPhoto(s) ==
    /\ task[s].pc = "img_photo"
    /\ \E ok \in BOOLEAN :
         Step(s, Await(task[s], "sendPhoto", Caption(task[s].prompt), task[s].image, 0,
                       ok, "return"))

handleImageGeneration_edit(s) ==
    /\ task[s].pc = "img_edit"
    /\ \E ok \in BOOLEAN :
         Step(s, Await(task[s], "editMessageText", ImageFailedMessage, <<>>, 0, ok, "return"))

handleImageGeneration_catch(s) ==
    /\ task[s].pc = "img_catch"
    /\ \E ok \in BOOLEAN :
         Step(s, Await(task[s], "editMessageText", ImageFailedMessage, <<>>, 0, ok, "return"))

\* ------------------------------------------------------------------ handleVoiceMessage
handleVoiceMessage_processing(s) ==
    /\ task[s].pc = "voice_processing"
    /\ \E ok \in BOOLEAN :
         Step(s, Await(task[s], "sendMessage", ProcessingMessage, <<>>, 0, ok,
                       "voice_getfile"))

handleVoiceMessage_getFile(s) ==
    /\ task[s].pc = "voice_getfile"
    /\ \E ok \in BOOLEAN :
         Step(s, Await(task[s], "getFile", <<>>, <<>>, 0, ok, "voice_save"))

handleVoiceMessage_saveVoiceFile(s) ==
    /\ task[s].pc = "voice_save"
    /\ \E ok \in BOOLEAN :
         Step(s, Await(task[s], "saveVoiceFile", <<>>, <<>>, 0, ok, "voice_stt"))

\* A failed transcription tried again instead of reported.
handleVoiceMessage_transcribe_retry(s) ==
    /\ task[s].pc = "voice_stt"
    /\ \/ \E words \in Transcripts :
            Step(s, [Call(task[s], "convertAudioToText", <<>>, <<>>, 0, TRUE)
                       EXCEPT !.pc = "ai_user", !.aiInput = words])
       \/ Step(s, [Call(task[s], "convertAudioToText", <<>>, <<>>, 0, FALSE)
                     EXCEPT !.pc = "voice_getfile"])

\* convertAudioToText answers {status: 'success', data} or {status: 'error'}.
handleVoiceMessage_transcribe(s) ==
    /\ task[s].pc = "voice_stt"
    /\ \/ \E words \in Transcripts :
            Step(s, [Call(task[s], "convertAudioToText", <<>>, <<>>, 0, TRUE)
                       EXCEPT !.pc = "ai_user", !.aiInput = words])
       \/ Step(s, [Call(task[s], "convertAudioToText", <<>>, <<>>, 0, FALSE)
                     EXCEPT !.pc = "voice_edit"])

handleVoiceMessage_editFailed(s) ==
    /\ task[s].pc = "voice_edit"
    /\ \E ok \in BOOLEAN :
         Step(s, Await(task[s], "editMessageText", TranscribeFailedMessage, <<>>, 0, ok,
                       "return"))

\* convertTextToSpeech answers {status: 'success', data} or {status: 'error'}.
handleVoiceMessage_speech(s) ==
    /\ task[s].pc = "voice_tts"
    /\ \E ok \in BOOLEAN :
         Step(s, [Call(task[s], "convertTextToSpeech", task[s].aiResponse, <<>>, 0, ok)
                    EXCEPT !.pc = "voice_delete",
                           !.tts = IF ok THEN "success" ELSE "error"])

handleVoiceMessage_delete(s) ==
    /\ task[s].pc = "voice_delete"
    /\ \E ok \in BOOLEAN :
         Step(s, Await(task[s], "deleteMessage", ProcessingMessage, <<>>, 0, ok,
                       IF task[s].tts = "success" THEN "voice_audio" ELSE "voice_text"))

handleVoiceMessage_sendVoice(s) ==
    /\ task[s].pc = "voice_audio"
    /\ \E ok \in BOOLEAN :
         Step(s, Await(task[s], "sendVoice", <<>>, AudioRef, task[s].ev, ok, "return"))

handleVoiceMessage_sendText(s) ==
    /\ task[s].pc = "voice_text"
    /\ \E ok \in BOOLEAN :
         Step(s, Await(task[s], "sendMessage", task[s].aiResponse, <<>>, task[s].ev,
                       ok, "return"))

handleVoiceMessage_catch(s) ==
    /\ task[s].pc = "voice_catch"
    /\ \E ok \in BOOLEAN :
         Step(s, Await(task[s], "sendMessage", VoiceFailedMessage, <<>>, 0, ok, "return"))

\* ------------------------------------------------------------------ handleCallbackQuery
UserSelected(label) == <<"User selected: ">> \o label

handleCallbackQuery_answer(s) ==
    /\ task[s].pc = "cb_answer"
    /\ \E ok \in BOOLEAN :
         Step(s, Await(task[s], "answerCallbackQuery", <<>>, <<>>, 0, ok, "cb_save_user"))

\* The first saveToContext not awaited: the two appends may land in either order.
handleCallbackQuery_saveUser_unawaited(s) ==
    /\ task[s].pc = "cb_save_user"
    /\ \/ StepSave(s, [task[s] EXCEPT !.pc = "cb_save_asst"],
                   UserSelected(task[s].data), "user")
       \/ LET serviceInfo == getServiceInfo(task[s].data) IN
          /\ ctx' = saveToContext(
                        saveToContext(ctx, serviceInfo, "assistant", task[s].from, s),
                        UserSelected(task[s].data), "user", task[s].from, s)
          /\ task' = [task EXCEPT ![s] =
                        Call(Call([task[s] EXCEPT !.pc = "cb_send",
                                                  !.serviceInfo = serviceInfo],
                                  "saveToContext", serviceInfo, <<"assistant">>, 0, TRUE),
                             "saveToContext", UserSelected(task[s].data), <<"user">>, 0, TRUE)]
          /\ UNCHANGED <<mode, nextEv>>

handleCallbackQuery_saveUser(s) ==
    /\ task[s].pc = "cb_save_user"
    /\ StepSave(s, [task[s] EXCEPT !.pc = "cb_save_asst"],
                UserSelected(task[s].data), "user")

handleCallbackQuery_saveAssistant(s) ==
    /\ task[s].pc = "cb_save_asst"
    /\ LET serviceInfo == getServiceInfo(task[s].data) IN
       StepSave(s, [task[s] EXCEPT !.pc = "cb_send", !.serviceInfo = serviceInfo],
                serviceInfo, "assistant")

handleCallbackQuery_send(s) ==
    /\ task[s].pc = "cb_send"
    /\ \E ok \in BOOLEAN :
         Step(s, Await(task[s], "sendMessage", task[s].serviceInfo, <<>>, 0, ok, "return"))

TelegramStep(s) ==
    \/ handleStartCommand_save(s)
    \/ handleStartCommand_send(s)
    \/ generateAIResponse_request(s)
    \/ generateAIResponse_reply(s)
    \/ handleTextMessage_typing(s)
    \/ handleTextMessage_send(s)
    \/ handleImageGeneration_guide(s)
    \/ handleImageGeneration_loading(s)
    \/ handleImageGeneration_textToImage(s)
    \/ handleImageGeneration_delete(s)
    \/ handleImageGeneration_sendPhoto(s)
    \/ handleImageGeneration_edit(s)
    \/ handleImageGeneration_catch(s)
    \/ handleVoiceMessage_processing(s)
    \/ handleVoiceMessage_getFile(s)
    \/ handleVoiceMessage_saveVoiceFile(s)
    \/ handleVoiceMessage_transcribe(s)
    \/ handleVoiceMessage_editFailed(s)
    \/ handleVoiceMessage_speech(s)
    \/ handleVoiceMessage_delete(s)
    \/ handleVoiceMessage_sendVoice(s)
    \/ handleVoiceMessage_sendText(s)
    \/ handleVoiceMessage_catch(s)
    \/ handleCallbackQuery_answer(s)
    \/ handleCallbackQuery_saveUser(s)
    \/ handleCallbackQuery_saveAssistant(s)
    \/ handleCallbackQuery_send(s)

\* ------------------------------------------------------------------ WhatsApp
\* The webhook body as handleIncomingWhatsappMessage reads it: no messages
\* ("none": request?.entry?.[0]?.changes?.[0].value ?? {} has none), an entry whose
\* changes array is empty ("nochange": changes?.[0] is undefined and .value of it
\* throws a TypeError), or messages[0] of type text, interactive (button_reply or
\* another), audio or other.
ButtonTitle(id) ==
    CASE id = KnownServiceId -> <<"Branding">>
      [] id = MoreOptionsId  -> <<"More options">>
      [] OTHER               -> <<"Pricing">>

WhatsappRequests ==
    [kind : {"none", "nochange"}, from : {"7"}, text : {<<>>}, itype : {""}, id : {<<>>}]
    \cup [kind : {"text"}, from : UserIds, text : Texts, itype : {""}, id : {<<>>}]
    \cup [kind : {"interactive"}, from : UserIds, text : {<<>>}, itype : {"button_reply"},
          id : {KnownServiceId, MoreOptionsId, UnknownServiceId}]
    \cup [kind : {"interactive"}, from : UserIds, text : {<<>>}, itype : {"list_reply"},
          id : {KnownServiceId}]
    \cup [kind : {"audio", "document"}, from : UserIds, text : {<<>>}, itype : {""},
          id : {<<>>}]

\* return {status, message} of the WhatsApp handler.
Respond(t, result) == [t EXCEPT !.pc = "done", !.result = result]

Processed == "success: Message processed"

whatsappGetServiceInfo(serviceId) ==
    IF Len(serviceId) = 1 /\ serviceId[1] \in DOMAIN ServiceTitles
    THEN ServiceTitles[serviceId[1]]
    ELSE IF Len(serviceId) = 1 /\ serviceId[1] \in InheritedKeys
    THEN InheritedMember
    ELSE FallbackInfo

\* Lines 50-64: up to the first await.
\* The request as the handler holds it when it starts.
NewWhatsappTask(request) ==
    [IdleTask EXCEPT !.ev = nextEv, !.entry = "whatsapp",
                     !.handler = "handleIncomingWhatsappMessage",
                     !.from = request.from, !.text = request.text,
                     !.data = request.id,
                     !.title = ButtonTitle(request.id),
                     !.path = request.kind,
                     !.itype = request.itype,
                     !.overlapped = Busy,
                     !.kind = IF request.kind \in {"none", "nochange"} THEN "other"
                              ELSE request.kind]

NoMessages == "success: No messages to process"

WhatsappPost(requests) ==
    /\ FirstIdle <= MaxTasks
    /\ \E request \in requests :
         /\ task' = [task EXCEPT ![FirstIdle] =
                       CASE request.kind = "none"
                              -> Respond(NewWhatsappTask(request), NoMessages)
                         [] request.kind = "nochange"
                              -> Escape(NewWhatsappTask(request))
                         [] OTHER
                              -> [NewWhatsappTask(request) EXCEPT !.pc = "wa_mark"]]
         /\ nextEv' = nextEv + 1
         /\ UNCHANGED <<mode, ctx>>

handleIncomingWhatsappMessage == WhatsappPost(WhatsappRequests)

\* The switch on message.type (68) up to its first await.
SwitchOnType(t) ==
    CASE t.path = "text" ->
           IF includes(toLowerCase(t.text), imageGenerationCommand)
           THEN [t EXCEPT !.pc = "wa_img_gen", !.path = "image",
                          !.prompt = WhatsappPrompt(t.text)]
           ELSE [t EXCEPT !.pc = "ai_user", !.aiInput = t.text]
      [] t.path = "interactive" ->
           IF t.itype = "button_reply"
           THEN [t EXCEPT !.pc = "wa_int_save_user"]
           ELSE Respond(t, Processed)
      [] t.path = "audio" -> [t EXCEPT !.pc = "wa_download", !.path = "voice"]
      [] OTHER -> Respond(t, Processed)

\* The read receipt in a try / catch of its own: a failure is passed over.
whatsapp_markMessageAsRead_caught(s) ==
    /\ task[s].pc = "wa_mark"
    /\ \E ok \in BOOLEAN :
         Step(s, SwitchOnType(Call(task[s], "markMessageAsRead", <<>>, <<>>,
                                   task[s].ev, ok)))

\* Line 66, then the switch on message.type.
whatsapp_markMessageAsRead(s) ==
    /\ task[s].pc = "wa_mark"
    /\ \/ Step(s, Throw(Call(task[s], "markMessageAsRead", <<>>, <<>>, task[s].ev, FALSE)))
       \/ Step(s, SwitchOnType(Call(task[s], "markMessageAsRead", <<>>, <<>>,
                                     task[s].ev, TRUE)))

whatsapp_textToImage(s) ==
    /\ task[s].pc = "wa_img_gen"
    /\ \/ Step(s, [Call(task[s], "textToImage", task[s].prompt, <<>>, 0, TRUE)
                     EXCEPT !.pc = "wa_img_send", !.image = ImageRef])
       \/ Step(s, Respond(Call(task[s], "textToImage", task[s].prompt, <<>>, 0, FALSE),
                          "success: Image generation processed"))
       \/ Step(s, Throw(Call(task[s], "textToImage", task[s].prompt, <<>>, 0, FALSE)))

whatsapp_sendImageByUrl(s) ==
    /\ task[s].pc = "wa_img_send"
    /\ \E ok \in BOOLEAN :
         LET t == Call(task[s], "sendImageByUrl", <<>>, task[s].image, task[s].ev, ok) IN
         Step(s, IF ok THEN Respond(t, "success: Image generation processed")
                 ELSE Throw(t))

\* sendWhatsAppMessage(messageSender, text, messageID): the text exchange
\* (generateAIResponse), then the response sent as a reply to messageID.
whatsapp_sendWhatsAppMessage(s) ==
    /\ task[s].pc = "wa_text_send"
    /\ \E ok \in BOOLEAN :
         LET t == Call(task[s], "sendMessage", task[s].aiResponse, <<>>, task[s].ev, ok) IN
         Step(s, IF ok THEN Respond(t, Processed) ELSE Throw(t))

whatsapp_saveUser(s) ==
    /\ task[s].pc = "wa_int_save_user"
    /\ StepSave(s, [task[s] EXCEPT !.pc = IF task[s].data = MoreOptionsId
                                          THEN "wa_more" ELSE "wa_int_save_asst"],
                UserSelected(task[s].title), "user")

whatsapp_sendMoreOptionsMessage(s) ==
    /\ task[s].pc = "wa_more"
    /\ \E ok \in BOOLEAN :
         LET t == Call(task[s], "sendMenu", <<"more options">>, <<>>, 0, ok) IN
         Step(s, IF ok THEN Respond(t, Processed) ELSE Throw(t))

whatsapp_saveAssistant(s) ==
    /\ task[s].pc = "wa_int_save_asst"
    /\ LET serviceInfo == whatsappGetServiceInfo(task[s].data) IN
       StepSave(s, [task[s] EXCEPT !.pc = "wa_int_post", !.serviceInfo = serviceInfo],
                serviceInfo, "assistant")

\* The raw post in its own try / catch (132-145): a failure is logged only.
whatsapp_postServiceInfo(s) ==
    /\ task[s].pc = "wa_int_post"
    /\ \E ok \in BOOLEAN :
         Step(s, Respond([Call(task[s], "sendMessage", task[s].serviceInfo, <<>>, 0, ok)
                            EXCEPT !.logged = ~ok],
                         Processed))

\* downloadMedia answers {status: 'success', data} or {status: 'error'}.
whatsapp_downloadMedia(s) ==
    /\ task[s].pc = "wa_download"
    /\ \E ok \in BOOLEAN :
         LET t == Call(task[s], "downloadMedia", <<>>, <<>>, 0, ok) IN
         Step(s, IF ok THEN [t EXCEPT !.pc = "wa_stt"]
                 ELSE Respond(t, "error: Failed to download audio"))

whatsapp_transcribe(s) ==
    /\ task[s].pc = "wa_stt"
    /\ \/ \E words \in Transcripts :
            Step(s, [Call(task[s], "convertAudioToText", <<>>, <<>>, 0, TRUE)
                       EXCEPT !.pc = "ai_user", !.aiInput = words])
       \/ Step(s, Respond(Call(task[s], "convertAudioToText", <<>>, <<>>, 0, FALSE),
                          "error: Failed to transcribe audio"))

whatsapp_speech(s) ==
    /\ task[s].pc = "wa_tts"
    /\ \E ok \in BOOLEAN :
         LET t == Call(task[s], "convertTextToSpeech", task[s].aiResponse, <<>>, 0, ok) IN
         Step(s, IF ok THEN [t EXCEPT !.pc = "wa_audio_send"]
                 ELSE Respond(t, "error: Failed to convert text to speech"))

whatsapp_sendAudioByUrl(s) ==
    /\ task[s].pc = "wa_audio_send"
    /\ \E ok \in BOOLEAN :
         LET t == Call(task[s], "sendVoice", <<>>, AudioRef, 0, ok) IN
         Step(s, IF ok THEN Respond(t, Processed) ELSE Throw(t))

WhatsappStep(s) ==
    \/ whatsapp_markMessageAsRead(s)
    \/ whatsapp_textToImage(s)
    \/ whatsapp_sendImageByUrl(s)
    \/ whatsapp_sendWhatsAppMessage(s)
    \/ whatsapp_saveUser(s)
    \/ whatsapp_sendMoreOptionsMessage(s)
    \/ whatsapp_saveAssistant(s)
    \/ whatsapp_postServiceInfo(s)
    \/ whatsapp_downloadMedia(s)
    \/ whatsapp_transcribe(s)
    \/ whatsapp_speech(s)
    \/ whatsapp_sendAudioByUrl(s)

Next ==
    \/ processWebhookUpdate
    \/ setupHandlers
    \/ handleIncomingWhatsappMessage
    \/ \E s \in Slots : TelegramStep(s)
    \/ \E s \in Slots : WhatsappStep(s)

Spec == Init /\ [][Next]_vars

\* ------------------------------------------------------------------ voice events only
\* The behaviours in which every inbound event is a voice message (Telegram) or an
\* audio message (WhatsApp), with every awaited call returning: each step of a
\* task that is under way is eventually taken.
VoiceUpdates == {update \in TelegramUpdates :
                    update.kind = "message" /\ update.voice /\ ~update.hasText}
VoiceRequests == {request \in WhatsappRequests : request.kind = "audio"}

VoiceStep(s) ==
    \/ handleVoiceMessage_processing(s)
    \/ handleVoiceMessage_getFile(s)
    \/ handleVoiceMessage_saveVoiceFile(s)
    \/ handleVoiceMessage_transcribe(s)
    \/ handleVoiceMessage_editFailed(s)
    \/ handleVoiceMessage_speech(s)
    \/ handleVoiceMessage_delete(s)
    \/ handleVoiceMessage_sendVoice(s)
    \/ handleVoiceMessage_sendText(s)
    \/ handleVoiceMessage_catch(s)
    \/ generateAIResponse_request(s)
    \/ generateAIResponse_reply(s)
    \/ whatsapp_markMessageAsRead(s)
    \/ whatsapp_downloadMedia(s)
    \/ whatsapp_transcribe(s)
    \/ whatsapp_speech(s)
    \/ whatsapp_sendAudioByUrl(s)

VoiceNext ==
    \/ WebhookUpdate(VoiceUpdates)
    \/ PolledUpdate(VoiceUpdates)
    \/ WhatsappPost(VoiceRequests)
    \/ \E s \in Slots : VoiceStep(s)

VoiceSpec == Init /\ [][VoiceNext]_vars /\ \A s \in Slots : WF_vars(VoiceStep(s))

\* ------------------------------------------------------------------ verification requests
\* The GET handler is synchronous: it runs from the request to its return in one
\* step.
GetWebhook ==
    /\ FirstIdle <= MaxTasks
    /\ \E query \in VerificationQueries :
         task' = [task EXCEPT ![FirstIdle] =
                    [IdleTask EXCEPT !.pc = "done", !.ev = nextEv, !.entry = "whatsapp",
                                     !.handler = "whatsappVerificationChallenge",
                                     !.kind = "verification", !.result = "returned",
                                     !.overlapped = Busy, !.query = query,
                                     !.answer = whatsappVerificationChallenge(
                                                    query.mode, query.challenge,
                                                    query.token, query.verificationToken)]]
    /\ nextEv' = nextEv + 1
    /\ UNCHANGED <<mode, ctx>>

\* The behaviours in which verification requests arrive among plain WhatsApp
\* texts that are being answered.
PlainTextRequests == {request \in WhatsappRequests :
                         request.kind = "text" /\ request.text = T_hi}

VerifyStep(s) ==
    \/ whatsapp_markMessageAsRead(s)
    \/ generateAIResponse_request(s)
    \/ generateAIResponse_reply(s)
    \/ whatsapp_sendWhatsAppMessage(s)

VerifyNext ==
    \/ GetWebhook
    \/ WhatsappPost(PlainTextRequests)
    \/ \E s \in Slots : VerifyStep(s)

VerifySpec == Init /\ [][VerifyNext]_vars

\* ------------------------------------------------------------------ observation
Done(s) == task[s].pc = "done"

Channels == {"telegram", "whatsapp"}
ChannelOf(t) == IF t.entry = "whatsapp" THEN "whatsapp" ELSE "telegram"

\* read(channel, userId): the callers give saveToContext a user id and no channel.
read(channel, userId) == ctx[userId]

ChannelOps == {"sendMessage", "sendMenu", "sendPhoto", "sendVoice", "sendImageByUrl",
               "editMessageText", "deleteMessage", "sendChatAction", "getFile",
               "saveVoiceFile", "answerCallbackQuery", "markMessageAsRead",
               "downloadMedia"}
ReplyOps == {"sendMessage", "sendMenu", "sendPhoto", "sendVoice", "sendImageByUrl",
             "editMessageText"}
Placeholders == {GeneratingMessage, ProcessingMessage}
FailureNotices == {ImageFailedMessage, TranscribeFailedMessage, VoiceFailedMessage}

IsReply(c) == c.op \in ReplyOps /\ c.ok
\* What the user is sent, in order; an editMessageText replaces the placeholder.
Replies(t) == SelectSeq(t.trace, IsReply)
IsFinalReply(c) == IsReply(c) /\ c.body \notin Placeholders
FinalReplies(t) == SelectSeq(t.trace, IsFinalReply)
CallsOf(t, op) == SelectSeq(t.trace, LAMBDA c : c.op = op)
\* Every channel adapter call of the task went through.
ChannelOk(t) == \A i \in DOMAIN t.trace : t.trace[i].op \in ChannelOps => t.trace[i].ok
AllOk(t) == \A i \in DOMAIN t.trace : t.trace[i].ok
SavesOf(t, role) == SelectSeq(t.trace, LAMBDA c : c.op = "saveToContext" /\ c.ref = <<role>>)
EntriesBy(s) == SelectSeq(ctx[task[s].from], LAMBDA e : e.by = s)

\* The prompt of an image command: the token stripped in any case, trimmed.
ImagePrompt(text) == trim(ReplaceFrom(text, imageGenerationCommand, 1, TRUE))

\* ------------------------------------------------------------------ claims
\* C1: an image command with a non-empty prompt, on either channel, is answered
\* by exactly two replies: first the "generating" text, then an image when the
\* image adapter succeeded and the failure text when it failed.
C1_ImageCommandTwoReplies ==
    \A s \in Slots :
        (Done(s) /\ task[s].path = "image" /\ ImagePrompt(task[s].text) # <<>>
           /\ ChannelOk(task[s]))
        => LET r == Replies(task[s])
               img == CallsOf(task[s], "textToImage")
           IN /\ Len(r) = 2
              /\ r[1].op = "sendMessage" /\ r[1].body = GeneratingMessage
              /\ Len(img) = 1
              /\ img[1].ok => r[2].op \in {"sendPhoto", "sendImageByUrl"}
              /\ ~img[1].ok => r[2].body = ImageFailedMessage

\* C2: an image command whose prompt is empty after stripping and trimming never
\* reaches the image adapter and is answered by exactly one guidance text.
C2_EmptyPromptGuidanceOnly ==
    \A s \in Slots :
        (Done(s) /\ task[s].path = "image" /\ ImagePrompt(task[s].text) = <<>>
           /\ ChannelOk(task[s]))
        => /\ CallsOf(task[s], "textToImage") = <<>>
           /\ Len(Replies(task[s])) = 1
           /\ Replies(task[s])[1].body = GuidanceMessage

\* C3: a voice event whose transcription fails is answered by exactly one failure
\* reply, and neither text completion nor text-to-speech is called for it.
C3_TranscriptionFailureOneReply ==
    \A s \in Slots :
        (Done(s) /\ task[s].path = "voice" /\ ChannelOk(task[s])
           /\ \E i \in DOMAIN task[s].trace :
                task[s].trace[i].op = "convertAudioToText" /\ ~task[s].trace[i].ok)
        => /\ Len(FinalReplies(task[s])) = 1
           /\ FinalReplies(task[s])[1].body \in FailureNotices
           /\ CallsOf(task[s], "textCompletion") = <<>>
           /\ CallsOf(task[s], "convertTextToSpeech") = <<>>

\* C4: a voice event whose transcription and completion succeed and whose
\* text-to-speech fails is answered by exactly one plain text carrying the
\* generated reply, never by audio, and the context holds the transcript (user)
\* and the generated reply (assistant).
C4_SynthesisFailureTextFallback ==
    \A s \in Slots :
        (Done(s) /\ task[s].path = "voice" /\ ChannelOk(task[s])
           /\ \E i \in DOMAIN task[s].trace :
                task[s].trace[i].op = "convertTextToSpeech" /\ ~task[s].trace[i].ok)
        => /\ Len(FinalReplies(task[s])) = 1
           /\ FinalReplies(task[s])[1].op = "sendMessage"
           /\ FinalReplies(task[s])[1].body = task[s].aiResponse
           /\ CallsOf(task[s], "sendVoice") = <<>>
           /\ \E i, j \in DOMAIN ctx[task[s].from] :
                /\ i < j
                /\ ctx[task[s].from][i] =
                     [role |-> "user", content |-> task[s].aiInput, by |-> s]
                /\ ctx[task[s].from][j] =
                     [role |-> "assistant", content |-> task[s].aiResponse, by |-> s]

\* A finished plain-text exchange in which every call went through.
TextExchange(s) ==
    /\ Done(s) /\ task[s].path = "text" /\ AllOk(task[s])
    /\ CallsOf(task[s], "textCompletion") # <<>>

\* The handler runs of one user of one channel.
RunsOf(channel, userId) ==
    {s \in Slots : /\ task[s].pc # "idle" /\ task[s].path # "none"
                   /\ ChannelOf(task[s]) = channel /\ task[s].from = userId}

\* C5: for every user U of a channel, after N consecutive successful text
\* exchanges (one after the other, nothing else of that user handled),
\* read(channel, U) is exactly 2N entries, user and assistant alternating from a
\* user entry, each exchange's pair in the order of the exchanges.
C5_TextExchangesAlternate ==
    \A channel \in Channels, u \in UserIds :
        LET mine == RunsOf(channel, u)
            h == read(channel, u)
        IN (/\ mine # {} /\ \A s \in mine : TextExchange(s)
            /\ \A s \in Slots : ~task[s].overlapped /\ task[s].pc \in {"idle", "done"})
           => /\ Len(h) = 2 * Cardinality(mine)
              /\ \A i \in DOMAIN h :
                   h[i].role = IF i % 2 = 1 THEN "user" ELSE "assistant"
              /\ \A i, j \in DOMAIN h :
                   i < j => task[h[i].by].ev <= task[h[j].by].ev

\* C6: every failed adapter call is caught inside the pipeline and answered by a
\* fallback reply to the user; no failure leaves an entry point.
C6_FailuresCaughtAndAnswered ==
    \A s \in Slots :
        Done(s) =>
            /\ ~task[s].escaped
            /\ \A i \in DOMAIN task[s].trace :
                 ~task[s].trace[i].ok
                 => \E j \in DOMAIN task[s].trace : j > i /\ IsReply(task[s].trace[j])

\* C7: one inbound event runs one processing path: no event triggers two
\* handlers, in the webhook dispatcher, the polling handlers or the WhatsApp switch.
C7_OneHandlerPerEvent ==
    \A s1, s2 \in Slots :
        (task[s1].pc # "idle" /\ task[s2].pc # "idle" /\ task[s1].ev = task[s2].ev)
        => s1 = s2

C9_ContextsIndependent ==
    [][\A s \in Slots :
         (task[s].pc \notin {"idle", "done"} /\ task'[s] # task[s])
         => \A channel \in Channels, u \in UserIds :
              (/\ <<channel, u>> # <<ChannelOf(task[s]), task[s].from>>
               /\ \E r \in RunsOf(channel, u) : CallsOf(task[r], "saveToContext") # <<>>)
              => read(channel, u)' = read(channel, u)]_vars

\* C10: a finished start, text, voice or interactive (button) run in which every
\* call went through has appended exactly one user entry and exactly one
\* assistant entry.
C10_OneUserOneAssistantEntry ==
    \A s \in Slots :
        (Done(s) /\ task[s].path \in {"start", "text", "voice", "interactive"}
           /\ task[s].itype \in {"", "button_reply"} /\ AllOk(task[s]))
        => /\ Len(SavesOf(task[s], "user")) = 1
           /\ Len(SavesOf(task[s], "assistant")) = 1

\* ------------------------------------------------------------------ C11
KnownServiceIds == {<<k>> : k \in DOMAIN ServiceTitles}

\* The static text the selection id stands for: the service's text for a known
\* service id, the fixed fallback acknowledgement for every other id.
ResolvedText(selectionId) ==
    IF selectionId \in KnownServiceIds THEN ServiceTitles[selectionId[1]]
    ELSE FallbackInfo

\* A finished run of an interactive selection that sent a reply.
AnsweredSelection(s) ==
    Done(s) /\ task[s].path = "interactive" /\ Replies(task[s]) # <<>>

\* C11: the reply to an interactive selection carries the service text of a known
\* service id and the fixed fallback acknowledgement for every other id, and the
\* string sent is the one appended as the assistant entry.
C11_SelectionReplyIsResolvedText ==
    \A s \in Slots :
        AnsweredSelection(s)
        => LET reply == Replies(task[s])[1] IN
           /\ reply.body = ResolvedText(task[s].data)
           /\ \E i \in DOMAIN ctx[task[s].from] :
                ctx[task[s].from][i] =
                    [role |-> "assistant", content |-> reply.body, by |-> s]

\* ------------------------------------------------------------------ C12
\* The calls of a run apart from the channel's housekeeping (typing indicator,
\* read receipt).
Exchange(t) ==
    SelectSeq(t.trace, LAMBDA c : c.op \notin {"sendChatAction", "markMessageAsRead"})

\* A finished run of a plain text event (no image token) whose calls all went
\* through.
PlainTextRun(s) == Done(s) /\ task[s].path = "text" /\ AllOk(task[s])

\* C12: a plain text event, when every call goes through, appends the body as a
\* user entry, calls text completion once, appends the response as an assistant
\* entry and sends exactly one text whose body is that response and which quotes
\* the inbound message, in that order; the two entries are in the context in
\* that order.
C12_TextExchangeOneQuotedReply ==
    \A s \in Slots :
        PlainTextRun(s)
        => LET t == task[s]
               e == Exchange(t)
           IN /\ Len(e) = 4
              /\ e[1].op = "saveToContext" /\ e[1].ref = <<"user">> /\ e[1].body = t.text
              /\ e[2].op = "textCompletion"
              /\ e[3].op = "saveToContext" /\ e[3].ref = <<"assistant">>
              /\ e[3].body = t.aiResponse /\ t.aiResponse \in Responses
              /\ e[4].op = "sendMessage" /\ e[4].body = t.aiResponse
              /\ e[4].replyTo = t.ev
              /\ Replies(t) = <<e[4]>>
              /\ EntriesBy(s) = << [role |-> "user", content |-> t.text, by |-> s],
                                   [role |-> "assistant", content |-> t.aiResponse,
                                    by |-> s] >>

\* A Telegram and a WhatsApp plain text exchange have both finished.
C12_Witness ==
    \E s, r \in Slots :
        /\ PlainTextRun(s) /\ task[s].entry = "whatsapp"
        /\ PlainTextRun(r) /\ task[r].entry \in {"webhook", "polling"}
        /\ task[r].handler = "handleTextMessage"

\* ------------------------------------------------------------------ C13
GenerativeOps == {"textCompletion", "textToImage", "convertAudioToText",
                  "convertTextToSpeech"}

\* A finished run of handleStartCommand for a message that is a start command
\* (its text begins with /start).
StartRun(s) ==
    /\ Done(s) /\ task[s].handler = "handleStartCommand"
    /\ startsWith(task[s].text, StartToken)

\* C13: a start command is handled by one handler run, which appends exactly one
\* entry, authored by the bot, recording that the user started a conversation,
\* calls no generative backend, and sends exactly one reply, the welcome menu,
\* when the send goes through.
C13_StartMenuOneEntryNoBackend ==
    \A s \in Slots :
        StartRun(s)
        => LET t == task[s] IN
           /\ \A r \in Slots : task[r].ev = t.ev => r = s
           /\ EntriesBy(s) = << [role |-> "assistant", content |-> StartedNote, by |-> s] >>
           /\ \A i \in DOMAIN t.trace : t.trace[i].op \notin GenerativeOps
           /\ Len(CallsOf(t, "sendMenu")) = 1
           /\ ChannelOk(t)
              => /\ Len(Replies(t)) = 1
                 /\ Replies(t)[1].op = "sendMenu"
                 /\ Replies(t)[1].body = WelcomeMessage

\* A start command has been answered through the webhook or through polling.
C13_Witness ==
    \E s \in Slots : StartRun(s) /\ ChannelOk(task[s]) /\ Replies(task[s]) # <<>>

\* ------------------------------------------------------------------ C14
\* The label of the button that carries the selection id.
SelectionLabel(selectionId) == ButtonTitle(selectionId)

\* The calls of an interactive run apart from the channel's housekeeping (read
\* receipt, answer to the callback query).
SelectionSteps(t) ==
    SelectSeq(t.trace, LAMBDA c : c.op \notin {"markMessageAsRead", "answerCallbackQuery"})

\* A finished run of an interactive selection whose calls all went through.
SelectionRun(s) == Done(s) /\ task[s].path = "interactive" /\ AllOk(task[s])

\* C14: an interactive selection, on either channel, appends the user entry
\* 'User selected: ' + the selection's label, then appends the text resolved by
\* the selection id as the assistant entry, then sends exactly one text, that
\* resolved text.
C14_SelectionStepsInOrder ==
    \A s \in Slots :
        SelectionRun(s)
        => LET t == task[s]
               e == SelectionSteps(t)
               resolved == ResolvedText(t.data)
           IN /\ Len(e) = 3
              /\ e[1].op = "saveToContext" /\ e[1].ref = <<"user">>
              /\ e[1].body = UserSelected(SelectionLabel(t.data))
              /\ e[2].op = "saveToContext" /\ e[2].ref = <<"assistant">>
              /\ e[2].body = resolved
              /\ e[3].op = "sendMessage" /\ e[3].body = resolved
              /\ Replies(t) = <<e[3]>>

\* ------------------------------------------------------------------ C15
\* A run of a voice event: handleVoiceMessage, or the WhatsApp handler on an
\* audio message (its path is "audio" until the read receipt, then "voice").
VoiceRun(t) == t.handler = "handleVoiceMessage" \/ t.path \in {"audio", "voice"}

\* The stage of the voice state machine a run is in, by its position in the
\* handler: 1 Received, 2 Transcribing, 3 Transcribed or TranscriptionFailed,
\* 4 Responding, 5 Synthesizing, 6 Synthesized or SynthesisFailed, 7 the catch
\* block of handleVoiceMessage (on its way out), 8 Done.
Stage(t) ==
    CASE t.pc \in {"voice_processing", "voice_getfile", "voice_save", "wa_mark",
                   "wa_download"}                                   -> 1
      [] t.pc \in {"voice_stt", "wa_stt"}                           -> 2
      [] t.pc \in {"voice_edit", "ai_user"}                         -> 3
      [] t.pc = "ai_reply"                                          -> 4
      [] t.pc \in {"voice_tts", "wa_tts"}                           -> 5
      [] t.pc \in {"voice_delete", "voice_audio", "voice_text", "wa_audio_send"} -> 6
      [] t.pc = "voice_catch"                                       -> 7
      [] t.pc = "done"                                              -> 8
      [] OTHER                                                      -> 0

StageOps == {"convertAudioToText", "textCompletion", "convertTextToSpeech"}

\* C15: a voice event only moves forward through the stages, a finished run
\* never changes again, no stage's backend is called twice for one event, and,
\* every awaited call returning, each voice run eventually reaches Done.
C15_VoiceOnlyForwardToDone ==
    /\ [][\A s \in Slots :
            VoiceRun(task[s])
            => /\ Stage(task'[s]) >= Stage(task[s])
               /\ Done(s) => task'[s] = task[s]]_vars
    /\ [](\A s \in Slots :
            VoiceRun(task[s])
            => \A op \in StageOps : Len(CallsOf(task[s], op)) <= 1)
    /\ \A s \in Slots : [](VoiceRun(task[s]) => <>Done(s))

\* A Telegram voice run and a WhatsApp audio run have both gone through every
\* stage and sent their audio reply.
C15_Witness ==
    \E s, r \in Slots :
        /\ Done(s) /\ task[s].handler = "handleVoiceMessage"
        /\ Done(r) /\ task[r].entry = "whatsapp"
        /\ \A q \in {s, r} :
             /\ VoiceRun(task[q]) /\ AllOk(task[q])
             /\ Len(CallsOf(task[q], "sendVoice")) = 1
             /\ \A op \in StageOps : Len(CallsOf(task[q], op)) = 1

\* ------------------------------------------------------------------ C16
\* A finished run for a text that contains the image token in some letter case
\* and has a prompt left, every call of the run having gone through.  A Telegram
\* text for which no handler is registered is a run of the handler "none".
ImageCommandRun(s) ==
    /\ Done(s) /\ AllOk(task[s])
    /\ task[s].handler \in {"none", "handleTextMessage", "handleIncomingWhatsappMessage"}
    /\ includes(toLowerCase(task[s].text), imageGenerationCommand)
    /\ ImagePrompt(task[s].text) # <<>>

ImageOps == {"sendPhoto", "sendImageByUrl"}

\* C16: for a text containing the image token in any letter case, the image
\* adapter is given the text with every occurrence of the token removed and the
\* surrounding whitespace trimmed, and the image is sent with that prompt as its
\* caption.
C16_PromptStrippedTrimmedCaption ==
    \A s \in Slots :
        ImageCommandRun(s)
        => LET t == task[s]
               gen == CallsOf(t, "textToImage")
               img == SelectSeq(t.trace, LAMBDA c : c.op \in ImageOps)
           IN /\ Len(gen) = 1
              /\ gen[1].body = ImagePrompt(t.text)
              /\ Len(img) = 1
              /\ img[1].body = ImagePrompt(t.text)

\* ------------------------------------------------------------------ C17
\* The run of a payload that carries no actionable message: a WhatsApp request
\* without messages, a Telegram update with neither message nor callback_query.
NoMessageRun(s) == task[s].pc # "idle" /\ task[s].kind = "other"

\* C17: a payload without an actionable message starts no handler: its run is
\* over at once with no adapter or store call, no context entry and no reply,
\* and the webhook answers successfully.
C17_NoMessageNoEffect ==
    \A s \in Slots :
        NoMessageRun(s)
        => /\ Done(s)
           /\ task[s].trace = <<>>
           /\ EntriesBy(s) = <<>>
           /\ ~task[s].logged /\ ~task[s].escaped
           /\ task[s].entry = "webhook" => task[s].result = "ok"
           /\ task[s].entry = "whatsapp" => task[s].result = NoMessages

\* ------------------------------------------------------------------ C18
VerificationRun(s) == task[s].kind = "verification"

\* The request is a subscription whose token is non-empty and is the configured
\* token.
Verified(query) ==
    /\ query.mode = Str(<<"subscribe">>)
    /\ query.token.def /\ query.token.str # <<>>
    /\ query.token = query.verificationToken

\* C18: the verification GET returns the supplied challenge exactly when the mode
\* is 'subscribe' and the supplied token is non-empty and equals the configured
\* token, and one of the two error strings, never the challenge, otherwise; it
\* calls no adapter and leaves the context store and every run under way as they
\* are.
C18_ChallengeOnlyForConfiguredToken ==
    /\ [](\A s \in Slots :
            VerificationRun(s)
            => LET query == task[s].query IN
               /\ Verified(query) <=> task[s].answer = query.challenge
               /\ ~Verified(query) => task[s].answer \in {MissingParameters, TokenMismatch}
               /\ task[s].trace = <<>>
               /\ \A u \in UserIds : \A i \in DOMAIN ctx[u] : ctx[u][i].by # s)
    /\ [][GetWebhook
          => /\ ctx' = ctx
             /\ \A s \in Slots : task[s].pc # "idle" => task'[s] = task[s]]_vars

\* A verification with the configured token has been answered with its challenge
\* and one with a wrong token has been refused.
C18_Witness ==
    \E s, r \in Slots :
        /\ VerificationRun(s) /\ Verified(task[s].query)
        /\ task[s].answer = Str(<<"1158201444">>)
        /\ VerificationRun(r) /\ task[r].answer = TokenMismatch
        /\ task[r].query.token = Str(<<"guess">>)

\* ------------------------------------------------------------------ C19
\* A run started by TelegramController.handleWebhook.
WebhookRun(s) == task[s].entry = "webhook"

\* C19: handleWebhook answers {status: 'ok'} for every update, whichever call
\* fails while the update is processed: no exception leaves processWebhookUpdate
\* and the controller never answers {status: 'error'}.
C19_WebhookAlwaysOk ==
    \A s \in Slots :
        WebhookRun(s)
        => /\ task[s].result \in {"pending", "ok"}
           /\ ~task[s].escaped
           /\ Done(s) => task[s].result = "ok"

\* A webhook update has been answered although a call failed outside every
\* handler's own catch, and another although a call failed in the catch block of
\* its handler.
C19_Witness ==
    \E s, r \in Slots :
        /\ WebhookRun(s) /\ Done(s) /\ task[s].handler = "handleCallbackQuery"
        /\ ~AllOk(task[s]) /\ task[s].logged /\ task[s].result = "ok"
        /\ WebhookRun(r) /\ Done(r) /\ task[r].handler = "handleVoiceMessage"
        /\ \E i \in DOMAIN task[r].trace :
             /\ task[r].trace[i].body = VoiceFailedMessage
             /\ ~task[r].trace[i].ok
        /\ task[r].result = "ok"

\* ------------------------------------------------------------------ C20
\* A run of the WhatsApp handler for a payload that carries messages.
WhatsappMessageRun(s) ==
    /\ task[s].handler = "handleIncomingWhatsappMessage"
    /\ task[s].kind # "other"

\* C20: the WhatsApp handler marks the inbound message as read exactly once, as
\* the first call of the event, before any backend call, context append or send;
\* when that call fails nothing else of the event runs.
C20_ReadReceiptFirstOrNothing ==
    \A s \in Slots :
        WhatsappMessageRun(s)
        => LET t == task[s]
               marks == CallsOf(t, "markMessageAsRead")
           IN /\ Len(marks) = IF t.pc = "wa_mark" THEN 0 ELSE 1
              /\ t.pc = "wa_mark" => t.trace = <<>> /\ EntriesBy(s) = <<>>
              /\ t.trace # <<>>
                 => /\ t.trace[1].op = "markMessageAsRead"
                    /\ t.trace[1].replyTo = t.ev
                    /\ ~t.trace[1].ok
                       => /\ Len(t.trace) = 1 /\ Done(s)
                          /\ EntriesBy(s) = <<>>
                          /\ t.result = "rejected"

\* One WhatsApp event ended at its failed read receipt; another, after its read
\* receipt, appended to the context, called a backend and sent its reply.
C20_Witness ==
    \E s, r \in Slots :
        /\ WhatsappMessageRun(s) /\ Done(s) /\ ~task[s].trace[1].ok
        /\ WhatsappMessageRun(r) /\ Done(r) /\ AllOk(task[r])
        /\ EntriesBy(r) # <<>> /\ Replies(task[r]) # <<>>
        /\ CallsOf(task[r], "textCompletion") # <<>>

\* ------------------------------------------------------------------ C21
\* A run started by the webhook for a message whose text starts with '/' but not
\* with '/start'.
SlashRun(s) ==
    /\ task[s].entry = "webhook" /\ task[s].kind = "message"
    /\ startsWith(task[s].text, Slash)
    /\ ~startsWith(task[s].text, StartToken)

\* The update of the run started no handler: the run is over at once, with no
\* call, no reply, no context entry, and the update is acknowledged.
NothingTriggered(s) ==
    /\ Done(s) /\ task[s].handler = "none"
    /\ \A r \in Slots : task[r].ev = task[s].ev => r = s
    /\ task[s].trace = <<>>
    /\ EntriesBy(s) = <<>>
    /\ ~task[s].logged
    /\ task[s].result = "ok"

====
